---- MODULE Spec2Model ----
(***************************************************************************)
(* productive-box: the request handler of src/src/index.ts.                *)
(*                                                                         *)
(* One invocation of handler is a sequence of awaits on remote calls       *)
(* (identity query, contributed-repos query, one commit-history query per  *)
(* non-fork repository joined by Promise.all, gist get, gist update).      *)
(* Between two awaits the code runs to completion, so every action below   *)
(* is "a remote call settles, and handler runs up to its next await or     *)
(* its return".  Two kinds of step run code while handler stays suspended  *)
(* and are followed by a step of their own in a later turn of the          *)
(* microtask queue:                                                        *)
(*  - a remote call rejects: the .catch callback attached to it sends the  *)
(*    500 response and resolves the awaited promise with null; handler     *)
(*    resumes afterwards and returns (CaughtResumes);                      *)
(*  - the await of line 78 suspends handler also when there is no          *)
(*    repository to query (EmptyJoinResumes).                              *)
(* The outcome of every remote call is an input, drawn from the small sets *)
(* below.                                                                  *)
(***************************************************************************)
EXTENDS Integers, Sequences, FiniteSets, TLC

\* ---- bounds -------------------------------------------------------------
MaxRepos == 2        \* nodes in a contributed-repository listing
MaxEdges == 1        \* commit-history edges in one repository's response

\* ---- invocations --------------------------------------------------------
\* Handler 1 is the invocation under study; handler 2 is a second invocation
\* of the same function against the same gist, started only in SpecRace.
Handlers == {1, 2}

\* ---- response texts (index.ts lines 40, 47, 57, 64, 82, 110, 145, 152, --
\* ---- 168, 171; the emoji of line 168 is left out of the string) ---------
FailedUserInfo == [status |-> 500, body |-> "Failed to get user info"]
UserIncomplete == [status |-> 500, body |-> "User info incomplete"]
FailedRepos    == [status |-> 500, body |-> "Failed to get contributed repos"]
InvalidToken   == [status |-> 401, body |-> "Invalid GitHub token"]
FailedCommits  == [status |-> 500, body |-> "Failed to get commit info"]
NoCommitData   == [status |-> 200, body |-> "No commit data found"]
FailedGist     == [status |-> 500, body |-> "Failed to get gist"]
NoGistFiles    == [status |-> 404, body |-> "No gist files found"]
Success        == [status |-> 200, body |-> "Success to update the gist"]
InternalError  == [status |-> 500, body |-> "Internal Server Error"]

EarlyLabel == "I'm an early bird"     \* line 161, "I'm an early <chick>"
NightLabel == "I'm a night owl"       \* line 161, "I'm a night <owl>"

\* ---- inputs: what a remote call can settle with --------------------------
SeqUpTo(S, n) == UNION {[1..k -> S] : k \in 0..n}

\* githubQuery(userInfoQuery):
\*   reject   the promise rejects
\*   null     it resolves with a falsy value (a JSON body of null)
\*   badcred  it resolves with {message: "Bad credentials"}
\*   nologin, noid   data.viewer lacks login, or id
\*   ok       data.viewer has both
UserOutcomes == {"reject", "null", "badcred", "nologin", "noid", "ok"}

\* githubQuery(createContributedRepoQuery(username)):
\*   nolisting  a truthy response without data.user.repositoriesContributedTo
\*   listing    nodes is the sequence of the isFork flags of the listing
NoNodes == <<>>
RepoOutcomes ==
    {[kind |-> k, nodes |-> NoNodes] : k \in {"reject", "null", "badcred", "nolisting"}}
    \cup {[kind |-> "listing", nodes |-> n] : n \in SeqUpTo(BOOLEAN, MaxRepos)}

\* A committedDate: a valid date (its UTC hour), a value that is no date
\* (undefined, or a string Date cannot parse), or null.
Timestamps ==
    {[kind |-> "date", hour |-> h] : h \in {7, 19}}
    \cup {[kind |-> "invalid", hour |-> 0], [kind |-> "null", hour |-> 0]}

\* githubQuery(createCommittedDateQuery(id, name, owner)):
\*   null     resolves with a falsy value
\*   nodata   a response lacking data/repository/defaultBranchRef/target/history
\*   noedges  history is present but has no edges field
\*   edges    history.edges is the sequence of committedDate values
CommitOutcomes ==
    {[kind |-> k, edges |-> <<>>] : k \in {"reject", "null", "nodata", "noedges"}}
    \cup {[kind |-> "edges", edges |-> e] : e \in SeqUpTo(Timestamps, MaxEdges)}

\* process.env.TIMEZONE as an offset from UTC in whole hours (UTC, Asia/Seoul)
TimeZones == {0, 9}

\* The gist before the invocation: files absent, an empty mapping, two blobs.
NoContent == <<>>
InitialDocs ==
    { [hasFiles |-> FALSE, files |-> <<>>],
      [hasFiles |-> TRUE,  files |-> <<>>],
      [hasFiles |-> TRUE,  files |-> << [name |-> "a", content |-> NoContent],
                                        [name |-> "b", content |-> NoContent] >>] }

VARIABLES
    inv,        \* [Handlers -> the locals of one invocation of handler]
    TIMEZONE,   \* process.env.TIMEZONE
    gistDoc     \* the document process.env.GIST_ID names, in the store

vars == <<inv, TIMEZONE, gistDoc>>

Pending == [state |-> "pending", resp |-> [kind |-> "none", edges |-> <<>>]]

\* The locals of an invocation before handler is entered.  pc is where
\* handler is: awaitX, suspended on the remote call of stage X; caughtX,
\* suspended on that await after the catch callback of the call has run.
Fresh(pc0) ==
    [ pc        |-> pc0,
      sent      |-> <<>>,                \* responses sent on res, in order
      userCalls |-> 0,
      repoCalls |-> 0,
      getCalls  |-> 0,
      queried   |-> <<>>,                \* listing index of each commit query issued
      userResp  |-> "none",
      repoResp  |-> [kind |-> "none", nodes |-> NoNodes],
      repos     |-> <<>>,                \* listing indices of the non-fork repositories
      fetch     |-> <<>>,                \* the promises handed to Promise.all
      morning   |-> 0,
      daytime   |-> 0,
      evening   |-> 0,
      night     |-> 0,
      aggregated |-> FALSE,              \* line 108 has been reached
      getResp   |-> "none",
      gist      |-> [hasFiles |-> FALSE, files |-> <<>>],
      filename  |-> "none",
      updateArgs |-> <<>>,               \* the files argument of each update call
      updateResp |-> "none" ]

\* ---- helpers of the handler ----------------------------------------------

\* res.status(..).send(..); return
Respond(s, r) == [s EXCEPT !.sent = Append(@, r), !.pc = "done"]

\* a bare `return`
Return(s) == [s EXCEPT !.pc = "done"]

\* The .catch callback of a rejected remote call (lines 38-42, 55-59, 80-84,
\* 143-147): it sends r and returns null to the promise handler awaits;
\* handler itself is still suspended there (pc = at).
Caught(s, r, at) == [s EXCEPT !.sent = Append(@, r), !.pc = at]

\* handler resumes with the null of the catch callback: `if (!x) return` of
\* lines 43, 60, 85, 148
OnCaught(s) == Return(s)

\* No try/catch around the body: the exception ends handler with nothing sent.
ThrowUncaught(s) == [s EXCEPT !.pc = "done"]

\* an exception inside the try block: the catch of lines 169-172
Throw(s) == Respond(s, InternalError)

\* ---- stage 1: lines 38-55 ------------------------------------------------

\* `!response`: the resolved value is falsy
Falsy(kind) == kind = "null"

\* line 46, `!username || !id` on the destructured data.viewer
IncompleteUser(o) == o # "ok"

\* handler is entered: line 38 issues the identity query
Enter(s) == [s EXCEPT !.userCalls = @ + 1, !.pc = "awaitUser"]

\* the identity query settles with o
OnUser(s, o) ==
    LET s1 == [s EXCEPT !.userResp = o] IN
    IF o = "reject" THEN Caught(s1, FailedUserInfo, "caughtUser")  \* lines 38-42
    ELSE IF Falsy(o) THEN Return(s1)                           \* line 43
    ELSE IF IncompleteUser(o) THEN Respond(s1, UserIncomplete) \* lines 45-49
    ELSE [s1 EXCEPT !.repoCalls = @ + 1, !.pc = "awaitRepo"]   \* lines 54-55

\* ---- aggregation: lines 87-106 -------------------------------------------

NaN == 0 - 1     \* the value of +"Invalid Date"; every comparison with it is false

\* lines 95-99.  toLocaleTimeString of an invalid Date is "Invalid Date";
\* new Date(null) is the epoch, 00:00 UTC; with hour12: false some builds
\* print midnight as "24:00:00" (h24) and others as "00:00:00".
HourOf(ts, tz, h24) ==
    IF ts.kind = "invalid" THEN NaN
    ELSE LET utc   == IF ts.kind = "null" THEN 0 ELSE ts.hour
             local == (utc + tz + 24) % 24
         IN  IF local = 0 /\ h24 THEN 24 ELSE local

GE(x, y) == x # NaN /\ x >= y
LT(x, y) == x # NaN /\ x < y

\* The lower bound of the morning range compared with > instead of >=.
BucketOffByOne(hour) ==
    IF GE(hour, 7) /\ LT(hour, 12) THEN "morning"
    ELSE IF GE(hour, 12) /\ LT(hour, 18) THEN "daytime"
    ELSE IF GE(hour, 18) /\ LT(hour, 24) THEN "evening"
    ELSE "night"

\* lines 101-104
Bucket(hour) ==
    IF GE(hour, 6) /\ LT(hour, 12) THEN "morning"
    ELSE IF GE(hour, 12) /\ LT(hour, 18) THEN "daytime"
    ELSE IF GE(hour, 18) /\ LT(hour, 24) THEN "evening"
    ELSE "night"

Count(s, b) ==
    CASE b = "morning" -> [s EXCEPT !.morning = @ + 1]
      [] b = "daytime" -> [s EXCEPT !.daytime = @ + 1]
      [] b = "evening" -> [s EXCEPT !.evening = @ + 1]
      [] OTHER         -> [s EXCEPT !.night = @ + 1]

\* the inner forEach of line 93 over one response's edges, from edge k on
RECURSIVE CountEdges(_, _, _, _, _)
CountEdges(s, edges, k, tz, h24) ==
    IF k > Len(edges) THEN s
    ELSE CountEdges(Count(s, Bucket(HourOf(edges[k], tz, h24))), edges, k + 1, tz, h24)

\* the outer forEach of line 92, from response k on.  The optional chain of
\* line 93 skips a response that lacks the path down to history; a history
\* without edges makes `.forEach` a call on undefined, which throws.
RECURSIVE CountResponses(_, _, _, _)
CountResponses(s, k, tz, h24) ==
    IF k > Len(s.fetch) THEN s
    ELSE LET r == s.fetch[k].resp IN
         IF r.kind = "noedges" THEN Throw(s)
         ELSE IF r.kind = "edges"
              THEN CountResponses(CountEdges(s, r.edges, 1, tz, h24), k + 1, tz, h24)
              ELSE CountResponses(s, k + 1, tz, h24)

Sum(s) == s.morning + s.daytime + s.evening + s.night

\* The check of line 109 left out.
AfterCommitsNoSumCheck(s, tz, h24) ==
    LET a == CountResponses(s, 1, tz, h24) IN
    IF a.pc = "done" THEN a
    ELSE [a EXCEPT !.aggregated = TRUE, !.getCalls = @ + 1, !.pc = "awaitGet"]

\* lines 87-139: Promise.all has resolved
AfterCommits(s, tz, h24) ==
    LET a == CountResponses(s, 1, tz, h24) IN
    IF a.pc = "done" THEN a                                        \* thrown
    ELSE LET b == [a EXCEPT !.aggregated = TRUE] IN
         IF Sum(b) = 0 THEN Respond(b, NoCommitData)               \* lines 108-112
         ELSE [b EXCEPT !.getCalls = @ + 1, !.pc = "awaitGet"]     \* lines 138-139

\* ---- stage 2: lines 55-79 ------------------------------------------------

\* The check of line 62 comparing another text.
IsBadCredentialsOtherText(r) == FALSE

\* line 62
IsBadCredentials(r) == r.kind = "badcred"

\* The filter of line 69 left out: every node of the listing is kept.
NonForksUnfiltered(nodes, k) == [i \in 1..Len(nodes) |-> i]

\* lines 68-73: the listing indices of the nodes that are not forks
RECURSIVE NonForks(_, _)
NonForks(nodes, k) ==
    IF k > Len(nodes) THEN <<>>
    ELSE IF ~nodes[k] THEN <<k>> \o NonForks(nodes, k + 1)
    ELSE NonForks(nodes, k + 1)

\* Promise.allSettled in place of Promise.all: a rejection does not reject the join.
PromiseAllSettled(f) ==
    IF \A i \in 1..Len(f) : f[i].state # "pending" THEN "resolved" ELSE "pending"

\* The state of Promise.all over the promises f: it rejects as soon as one of
\* them has rejected and resolves once every one has resolved.
PromiseAll(f) ==
    IF \E i \in 1..Len(f) : f[i].state = "rejected" THEN "rejected"
    ELSE IF \A i \in 1..Len(f) : f[i].state = "resolved" THEN "resolved"
    ELSE "pending"

\* A join that aggregates the fetches that succeeded once none is pending.
JoinedBestEffort(s, tz, h24) ==
    IF \E i \in 1..Len(s.fetch) : s.fetch[i].state = "pending" THEN s
    ELSE AfterCommits(s, tz, h24)

\* lines 78-85 and what follows, once Promise.all over s.fetch has settled
Joined(s, tz, h24) ==
    LET st == PromiseAll(s.fetch) IN
    IF st = "rejected" THEN Caught(s, FailedCommits, "caughtCommits")  \* lines 80-84
    ELSE IF st = "resolved" THEN AfterCommits(s, tz, h24)
    ELSE s

\* the contributed-repos query settles with r; with a listing, handler runs
\* up to the await of line 78 and is suspended there, also when the listing
\* holds no non-fork repository
OnRepos(s, r) ==
    LET s1 == [s EXCEPT !.repoResp = r] IN
    IF r.kind = "reject" THEN Caught(s1, FailedRepos, "caughtRepo") \* lines 55-59
    ELSE IF Falsy(r.kind) THEN Return(s1)                          \* line 60
    ELSE IF IsBadCredentials(r) THEN Respond(s1, InvalidToken)     \* lines 62-66
    ELSE IF r.kind # "listing" THEN Throw(s1)                      \* line 79 on undefined
    ELSE LET rs == NonForks(r.nodes, 1) IN
         [s1 EXCEPT !.repos = rs,
                    !.queried = rs,                                \* line 79
                    !.fetch = [i \in 1..Len(rs) |-> Pending],
                    !.pc = "awaitCommits"]                         \* line 78

\* Promise.all of no promise is resolved: handler, suspended at line 78,
\* resumes in a later turn of the microtask queue
OnEmptyJoin(s, tz, h24) == Joined(s, tz, h24)

\* ---- stage 3: lines 78-85 ------------------------------------------------

Settled(o) ==
    [state |-> IF o.kind = "reject" THEN "rejected" ELSE "resolved", resp |-> o]

\* The catch attached to each fetch instead of to the Promise.all.
OnCommitCatchEach(s, i, o, tz, h24) ==
    LET s1 == [s EXCEPT !.fetch[i] = Settled(o)] IN
    IF o.kind = "reject"
    THEN Caught(s1, FailedCommits, IF s.pc = "awaitCommits" THEN "caughtCommits" ELSE s.pc)
    ELSE IF s.pc = "awaitCommits" THEN Joined(s1, tz, h24) ELSE s1

\* the commit-history query of repository i settles with o; handler resumes
\* only while it is suspended on the Promise.all
OnCommit(s, i, o, tz, h24) ==
    LET s1 == [s EXCEPT !.fetch[i] = Settled(o)] IN
    IF s.pc = "awaitCommits" THEN Joined(s1, tz, h24) ELSE s1

\* ---- stage 5: lines 138-168 ----------------------------------------------

\* line 150, `!gist.data.files`: an object, also an empty one, is truthy
NoFiles(gist) == ~gist.hasFiles

\* The last key taken instead of the first.
LastKey(gist) ==
    IF Len(gist.files) = 0 THEN "undefined" ELSE gist.files[Len(gist.files)].name

\* line 156, Object.keys(gist.data.files)[0]; a computed key of undefined is
\* the string "undefined"
FirstKey(gist) == IF Len(gist.files) = 0 THEN "undefined" ELSE gist.files[1].name

\* The comparison of line 161 with >= : a tie gives the early label.
LabelTieEarly(s) ==
    IF s.morning + s.daytime >= s.evening + s.night THEN EarlyLabel ELSE NightLabel

\* line 161
Label(s) == IF s.morning + s.daytime > s.evening + s.night THEN EarlyLabel ELSE NightLabel

\* lines 124-133 and 162: the report body, as the four commit counts its
\* lines are rendered from, in the order of oneDay
Content(s) == <<s.morning, s.daytime, s.evening, s.night>>

\* lines 159-164: the files argument, a mapping with the one key `filename`
FilesArg(s, key) == {[key |-> key, filename |-> Label(s), content |-> Content(s)]}

\* A rejected get issued a second time before giving up.
OnGetRetryOnce(s, o, doc) ==
    LET s1 == [s EXCEPT !.getResp = o] IN
    IF o = "reject" /\ s.getCalls < 2 THEN [s1 EXCEPT !.getCalls = @ + 1]
    ELSE IF o = "reject" THEN Caught(s1, FailedGist, "caughtGet")
    ELSE LET s2 == [s1 EXCEPT !.gist = [hasFiles |-> doc.hasFiles,
                                        files |-> doc.files]] IN
         IF NoFiles(s2.gist) THEN Respond(s2, NoGistFiles)
         ELSE LET key == FirstKey(s2.gist) IN
              [s2 EXCEPT !.filename = key,
                         !.updateArgs = Append(@, FilesArg(s2, key)),
                         !.pc = "awaitUpdate"]

\* the gist get settles: o is "reject" or "ok", doc the document it returns
OnGet(s, o, doc) ==
    LET s1 == [s EXCEPT !.getResp = o] IN
    IF o = "reject" THEN Caught(s1, FailedGist, "caughtGet")       \* lines 143-147
    ELSE LET s2 == [s1 EXCEPT !.gist = [hasFiles |-> doc.hasFiles,
                                        files |-> doc.files]] IN
         IF NoFiles(s2.gist) THEN Respond(s2, NoGistFiles)         \* lines 150-154
         ELSE LET key == FirstKey(s2.gist) IN                      \* lines 156-157
              [s2 EXCEPT !.filename = key,
                         !.updateArgs = Append(@, FilesArg(s2, key)),
                         !.pc = "awaitUpdate"]

\* The update not awaited: its rejection goes unnoticed.
OnUpdateNotAwaited(s, o) == Respond([s EXCEPT !.updateResp = o], Success)

\* the gist update settles
OnUpdate(s, o) ==
    LET s1 == [s EXCEPT !.updateResp = o] IN
    IF o = "reject" THEN Throw(s1)                                 \* lines 169-172
    ELSE Respond(s1, Success)                                      \* lines 167-168

\* ---- the document store ---------------------------------------------------

HasBlob(doc, name) == \E i \in 1..Len(doc.files) : doc.files[i].name = name

\* update(id, {[key]: {filename, content}}): the blob named key is renamed and
\* overwritten in place; a key the document does not hold adds a blob.
ApplyEntry(doc, e) ==
    IF HasBlob(doc, e.key)
    THEN [doc EXCEPT !.files = [i \in 1..Len(doc.files) |->
              IF doc.files[i].name = e.key
              THEN [name |-> e.filename, content |-> e.content]
              ELSE doc.files[i]]]
    ELSE [doc EXCEPT !.hasFiles = TRUE,
                     !.files = Append(@, [name |-> e.filename, content |-> e.content])]

RECURSIVE DocUpdate(_, _)
DocUpdate(doc, arg) ==
    IF arg = {} THEN doc
    ELSE LET e == CHOOSE x \in arg : TRUE IN DocUpdate(ApplyEntry(doc, e), arg \ {e})

\* ---- actions ---------------------------------------------------------------

Init ==
    /\ inv = [p \in Handlers |-> Fresh(IF p = 1 THEN "start" ELSE "idle")]
    /\ TIMEZONE \in TimeZones
    /\ gistDoc \in InitialDocs

Start(p) ==
    /\ inv[p].pc = "start"
    /\ inv' = [inv EXCEPT ![p] = Enter(@)]
    /\ UNCHANGED <<TIMEZONE, gistDoc>>

UserSettles(p, o) ==
    /\ inv[p].pc = "awaitUser"
    /\ inv' = [inv EXCEPT ![p] = OnUser(@, o)]
    /\ UNCHANGED <<TIMEZONE, gistDoc>>

RepoSettles(p, r) ==
    /\ inv[p].pc = "awaitRepo"
    /\ inv' = [inv EXCEPT ![p] = OnRepos(@, r)]
    /\ UNCHANGED <<TIMEZONE, gistDoc>>

\* Handler resumes from the await of line 78 over an empty repository list.
EmptyJoinResumes(p) ==
    /\ inv[p].pc = "awaitCommits"
    /\ Len(inv[p].fetch) = 0
    /\ \E h24 \in BOOLEAN : inv' = [inv EXCEPT ![p] = OnEmptyJoin(@, TIMEZONE, h24)]
    /\ UNCHANGED <<TIMEZONE, gistDoc>>

\* A commit-history request settles whenever it is pending, also after the
\* handler that issued it has returned.
CommitSettles(p, i, o) ==
    /\ i \in 1..Len(inv[p].fetch)
    /\ inv[p].fetch[i].state = "pending"
    /\ \E h24 \in BOOLEAN : inv' = [inv EXCEPT ![p] = OnCommit(@, i, o, TIMEZONE, h24)]
    /\ UNCHANGED <<TIMEZONE, gistDoc>>

\* Handler resumes from the await whose catch callback has run, and returns.
CaughtResumes(p) ==
    /\ inv[p].pc \in {"caughtUser", "caughtRepo", "caughtCommits", "caughtGet"}
    /\ inv' = [inv EXCEPT ![p] = OnCaught(@)]
    /\ UNCHANGED <<TIMEZONE, gistDoc>>

GetSettles(p, o) ==
    /\ inv[p].pc = "awaitGet"
    /\ inv' = [inv EXCEPT ![p] = OnGet(@, o, gistDoc)]
    /\ UNCHANGED <<TIMEZONE, gistDoc>>

\* A resolved update has been applied to the document; a rejected one has not.
UpdateSettles(p, o) ==
    /\ inv[p].pc = "awaitUpdate"
    /\ inv' = [inv EXCEPT ![p] = OnUpdate(@, o)]
    /\ gistDoc' = IF o = "ok"
                  THEN DocUpdate(gistDoc, inv[p].updateArgs[Len(inv[p].updateArgs)])
                  ELSE gistDoc
    /\ UNCHANGED TIMEZONE

Next ==
    \E p \in Handlers :
        \/ Start(p)
        \/ \E o \in UserOutcomes : UserSettles(p, o)
        \/ \E r \in RepoOutcomes : RepoSettles(p, r)
        \/ EmptyJoinResumes(p)
        \/ \E i \in 1..MaxRepos, o \in CommitOutcomes : CommitSettles(p, i, o)
        \/ \E o \in {"reject", "ok"} : GetSettles(p, o)
        \/ \E o \in {"reject", "ok"} : UpdateSettles(p, o)
        \/ CaughtResumes(p)

Spec == Init /\ [][Next]_vars

\* ---- two invocations racing on the same gist -------------------------------
\* Both handlers run.  A remote call either rejects or takes the path towards
\* the update: the identity query succeeds, the listing holds one repository
\* (a non-fork, or a fork, which leaves nothing to query), the repository
\* answers with one commit, the get succeeds.

RaceUserOutcomes == {"ok", "reject"}
RaceRepoOutcome == [kind |-> "listing", nodes |-> <<FALSE>>]
RaceRepoOutcomes ==
    {RaceRepoOutcome, [kind |-> "listing", nodes |-> <<TRUE>>],
     [kind |-> "reject", nodes |-> NoNodes]}
RaceCommitOutcomes ==
    {[kind |-> "edges", edges |-> <<[kind |-> "date", hour |-> h]>>] : h \in {7, 19}}
    \cup {[kind |-> "reject", edges |-> <<>>]}
RaceDocs == {d \in InitialDocs : Len(d.files) > 0}

InitRace ==
    /\ inv = [p \in Handlers |-> Fresh("start")]
    /\ TIMEZONE \in TimeZones
    /\ gistDoc \in RaceDocs

NextRace ==
    \E p \in Handlers :
        \/ Start(p)
        \/ \E o \in RaceUserOutcomes : UserSettles(p, o)
        \/ \E r \in RaceRepoOutcomes : RepoSettles(p, r)
        \/ EmptyJoinResumes(p)
        \/ \E o \in RaceCommitOutcomes : CommitSettles(p, 1, o)
        \/ \E o \in {"reject", "ok"} : GetSettles(p, o)
        \/ \E o \in {"reject", "ok"} : UpdateSettles(p, o)
        \/ CaughtResumes(p)

SpecRace == InitRace /\ [][NextRace]_vars

\* ---- properties --------------------------------------------------------------

Sent(p, r) == \E k \in 1..Len(inv[p].sent) : inv[p].sent[k] = r
Rejected(p) == {i \in 1..Len(inv[p].fetch) : inv[p].fetch[i].state = "rejected"}
Resolved(p) == {i \in 1..Len(inv[p].fetch) : inv[p].fetch[i].state = "resolved"}
Stage3Succeeded(p) ==
    /\ inv[p].repoResp.kind = "listing"
    /\ inv[p].pc # "awaitCommits"
    /\ Resolved(p) = 1..Len(inv[p].fetch)

\* the committedDate values of the edges the responses of p carry
EdgesOf(p, i) == inv[p].fetch[i].resp.edges
Unparseable(ts) == ts.kind \in {"invalid", "null"}

\* C1: in any run of handler at most one response is sent on res, whatever the
\* remote calls settle with, also when two or more commit-history fetches fail.
C1_AtMostOneResponse == \A p \in Handlers : Len(inv[p].sent) <= 1

\* two fetches of one invocation have failed and its response has been sent
C1_Witness ==
    \E p \in Handlers : Cardinality(Rejected(p)) >= 2 /\ inv[p].sent = <<FailedCommits>>

\* C2: an invocation whose remote calls have all settled has sent a response
\* when handler returns; no early return ends it with no response sent.
C2_ReturnedHasResponded ==
    \A p \in Handlers : inv[p].pc = "done" => Len(inv[p].sent) >= 1

\* C3: update is issued only after the identity query gave login and id, the
\* contributed-repos query gave a listing, every commit-history fetch
\* resolved, the bucket sum is positive and the get succeeded; a run ended by
\* a fetch or aggregation stage has issued no update.
C3_NoPartialReport ==
    \A p \in Handlers :
        /\ inv[p].updateArgs # <<>> =>
              /\ inv[p].userResp = "ok"
              /\ Stage3Succeeded(p)
              /\ inv[p].aggregated
              /\ Sum(inv[p]) > 0
              /\ inv[p].getResp = "ok"
        /\ (\/ \E r \in {FailedUserInfo, UserIncomplete, FailedRepos, InvalidToken,
                         FailedCommits, NoCommitData} : Sent(p, r)
            \/ inv[p].pc = "done" /\ ~inv[p].aggregated)
              => inv[p].updateArgs = <<>>

\* an update has been issued
C3_Witness ==
    \E p \in Handlers : inv[p].updateArgs # <<>> /\ Cardinality(Resolved(p)) >= 2

\* C4: a run that sends the success response has performed exactly one update,
\* which resolved before the response was sent and is applied to the
\* document; no run performs more than one update.
C4_ExactlyOneUpdate ==
    \A p \in Handlers :
        /\ Len(inv[p].updateArgs) <= 1
        /\ Sent(p, Success) =>
              /\ Len(inv[p].updateArgs) = 1
              /\ inv[p].updateResp = "ok"
        /\ inv[p].updateResp = "reject" => ~Sent(p, Success)

\* the success response has been sent
C4_Witness == \E p \in Handlers : inv[p].sent = <<Success>>

\* C5: when the contributed-repos response carries message "Bad credentials"
\* the outcome is 401 'Invalid GitHub token' and no commit-history query, no
\* get and no update is issued.
C5_BadCredentialsStops ==
    \A p \in Handlers :
        inv[p].repoResp.kind = "badcred" =>
            /\ inv[p].sent = <<InvalidToken>>
            /\ inv[p].pc = "done"
            /\ inv[p].queried = <<>>
            /\ inv[p].fetch = <<>>
            /\ inv[p].getCalls = 0
            /\ inv[p].updateArgs = <<>>

\* the contributed-repos query has answered "Bad credentials"
C5_Witness == \E p \in Handlers : inv[p].repoResp.kind = "badcred"

\* C6: an invocation in which the query source answers "Bad credentials", at
\* whichever stage, ends with the 401 response and never with a 500.
C6_BadCredentialsIs401 ==
    \A p \in Handlers :
        (inv[p].userResp = "badcred" \/ inv[p].repoResp.kind = "badcred")
            => inv[p].sent = <<InvalidToken>>

\* C7: if any commit-history fetch fails, the outcome is 500 'Failed to get
\* commit info', no bucket counter is incremented and neither get nor update
\* is issued: handler has returned, or is about to resume from the await of
\* line 78 with the null of the catch callback.
C7_AllOrNothing ==
    \A p \in Handlers :
        Rejected(p) # {} =>
            /\ inv[p].sent = <<FailedCommits>>
            /\ inv[p].pc \in {"caughtCommits", "done"}
            /\ ~inv[p].aggregated
            /\ Sum(inv[p]) = 0
            /\ inv[p].getCalls = 0
            /\ inv[p].updateArgs = <<>>

\* one fetch has failed and another has resolved with a commit
C7_Witness ==
    \E p \in Handlers :
        /\ Rejected(p) # {}
        /\ \E i \in Resolved(p) : Len(EdgesOf(p, i)) > 0

\* C8: when the responses carry no timestamp at all, the outcome is 200 'No
\* commit data found' and the document is neither read nor written.
C8_ZeroCommitShortCircuit ==
    \A p \in Handlers :
        (inv[p].aggregated /\ \A i \in Resolved(p) : Len(EdgesOf(p, i)) = 0) =>
            /\ Sum(inv[p]) = 0
            /\ inv[p].sent = <<NoCommitData>>
            /\ inv[p].pc = "done"
            /\ inv[p].getCalls = 0
            /\ inv[p].updateArgs = <<>>

\* every fetch of a non-empty repository list resolved without a timestamp
C8_Witness ==
    \E p \in Handlers :
        /\ inv[p].aggregated
        /\ Len(inv[p].fetch) >= 1
        /\ \A i \in Resolved(p) : Len(EdgesOf(p, i)) = 0

\* C9: when, after an aggregation with a positive sum, the document returned
\* by get holds no blob (files empty or absent), the outcome is 404 'No gist
\* files found' and no update is issued.
C9_NoBlobIs404 ==
    \A p \in Handlers :
        (inv[p].getResp = "ok" /\ Len(inv[p].gist.files) = 0) =>
            /\ inv[p].sent = <<NoGistFiles>>
            /\ inv[p].updateArgs = <<>>

\* C10: a committedDate that is missing or no valid date fails the run: it
\* ends in a non-200 outcome and no report is published (the run that refutes
\* this also shows the timestamp counted in the night bucket).
C10_UnparseableFails ==
    \A p \in Handlers :
        (/\ inv[p].pc = "done"
         /\ Stage3Succeeded(p)
         /\ \E i \in Resolved(p) :
               \E k \in 1..Len(EdgesOf(p, i)) : Unparseable(EdgesOf(p, i)[k]))
        => /\ \A k \in 1..Len(inv[p].sent) : inv[p].sent[k].status # 200
           /\ inv[p].sent # <<>>
           /\ inv[p].updateArgs = <<>>

\* C11: every timestamp processed increments exactly one counter, the one
\* whose range contains its local hour; every hour 0..23 is claimed by exactly
\* one bucket; after the aggregation the four counters add up to the number of
\* timestamps processed.
Buckets == {"morning", "daytime", "evening", "night"}
Claims(b, h) ==
    CASE b = "morning" -> 6 <= h /\ h < 12
      [] b = "daytime" -> 12 <= h /\ h < 18
      [] b = "evening" -> 18 <= h /\ h < 24
      [] OTHER         -> 0 <= h /\ h < 6
LocalHour(ts) == (ts.hour + TIMEZONE) % 24
Positions(p) == UNION {{<<i, k>> : k \in 1..Len(EdgesOf(p, i))} : i \in Resolved(p)}
At(p, ik) == EdgesOf(p, ik[1])[ik[2]]
InBucket(p, b) ==
    Cardinality({ik \in Positions(p) :
                    At(p, ik).kind = "date" /\ Claims(b, LocalHour(At(p, ik)))})
C11_BucketPartition ==
    /\ \A h \in 0..23 :
          /\ Cardinality({b \in Buckets : Claims(b, h)}) = 1
          /\ \A h24 \in BOOLEAN :
                LET utc == [kind |-> "date", hour |-> (h + 24 - TIMEZONE) % 24]
                IN  Claims(Bucket(HourOf(utc, TIMEZONE, h24)), h)
    /\ \A p \in Handlers :
          inv[p].aggregated =>
              /\ Sum(inv[p]) = Cardinality(Positions(p))
              /\ inv[p].morning >= InBucket(p, "morning")
              /\ inv[p].daytime >= InBucket(p, "daytime")
              /\ inv[p].evening >= InBucket(p, "evening")
              /\ inv[p].night   >= InBucket(p, "night")
              /\ (\A ik \in Positions(p) : At(p, ik).kind = "date") =>
                    /\ inv[p].morning = InBucket(p, "morning")
                    /\ inv[p].daytime = InBucket(p, "daytime")
                    /\ inv[p].evening = InBucket(p, "evening")
                    /\ inv[p].night   = InBucket(p, "night")

\* two valid timestamps have been counted, in two different buckets
C11_Witness ==
    \E p \in Handlers :
        /\ inv[p].aggregated
        /\ Cardinality(Positions(p)) >= 2
        /\ \A ik \in Positions(p) : At(p, ik).kind = "date"
        /\ Cardinality({b \in Buckets : InBucket(p, b) > 0}) >= 2

\* C12: the published blob name is the early label exactly when
\* morning+daytime > evening+night; a tie publishes the night label.
C12_Classification ==
    \A p \in Handlers :
        \A k \in 1..Len(inv[p].updateArgs) :
            \A e \in inv[p].updateArgs[k] :
                /\ Sum(inv[p]) > 0
                /\ e.filename \in {EarlyLabel, NightLabel}
                /\ e.filename = EarlyLabel <=>
                      inv[p].morning + inv[p].daytime > inv[p].evening + inv[p].night
                /\ e.content = <<inv[p].morning, inv[p].daytime,
                                 inv[p].evening, inv[p].night>>

\* a tie has been published, under the night label
C12_Witness ==
    \E p \in Handlers :
        /\ inv[p].sent = <<Success>>
        /\ inv[p].morning + inv[p].daytime = inv[p].evening + inv[p].night
        /\ HasBlob(gistDoc, NightLabel)

\* C13: forks are removed before Stage 3: one commit-history query is issued
\* per non-fork repository of the listing and none for a fork.
C13_ForkExclusion ==
    \A p \in Handlers :
        LET nodes == inv[p].repoResp.nodes
            q     == inv[p].queried
        IN  /\ \A k \in 1..Len(q) : q[k] \in 1..Len(nodes) /\ ~nodes[q[k]]
            /\ \A j, k \in 1..Len(q) : q[j] = q[k] => j = k
            /\ inv[p].repoResp.kind = "listing" =>
                  /\ Len(q) = Cardinality({i \in 1..Len(nodes) : ~nodes[i]})
                  /\ Len(inv[p].fetch) = Len(q)

\* a listing of a fork and a non-fork has led to one query
C13_Witness ==
    \E p \in Handlers :
        /\ \E i, j \in 1..Len(inv[p].repoResp.nodes) :
              inv[p].repoResp.nodes[i] /\ ~inv[p].repoResp.nodes[j]
        /\ Len(inv[p].queried) = 1

\* C14: the update touches one blob: its files argument has a single key, the
\* name of the first blob of the mapping the get returned, and every other
\* blob of the document is left as it was.
C14_OneBlobTouched ==
    \A p \in Handlers :
        \A k \in 1..Len(inv[p].updateArgs) :
            /\ Cardinality(inv[p].updateArgs[k]) = 1
            /\ \A e \in inv[p].updateArgs[k] :
                  /\ Len(inv[p].gist.files) >= 1
                  /\ e.key = inv[p].gist.files[1].name
            /\ inv[p].updateResp = "ok" =>
                  /\ Len(gistDoc.files) = Len(inv[p].gist.files)
                  /\ \A i \in 2..Len(gistDoc.files) : gistDoc.files[i] = inv[p].gist.files[i]

\* C15: Stage 3 waits for every commit-history request to settle: no response
\* is sent, and handler does not return, while a commit-history request of
\* the invocation is pending.
Pendings(p) == {i \in 1..Len(inv[p].fetch) : inv[p].fetch[i].state = "pending"}
C15_JoinAll ==
    \A p \in Handlers :
        (inv[p].sent # <<>> \/ inv[p].pc = "done") => Pendings(p) = {}

\* C16: every remote call is issued at most once, and once a remote call of
\* the run has failed no further remote call is issued in that run.
Failed(p) ==
    \/ inv[p].userResp = "reject"
    \/ inv[p].repoResp.kind = "reject"
    \/ Rejected(p) # {}
    \/ inv[p].getResp = "reject"
    \/ inv[p].updateResp = "reject"
Calls(p) ==
    <<inv[p].userCalls, inv[p].repoCalls, inv[p].queried, inv[p].getCalls,
      Len(inv[p].updateArgs)>>
OnceEach(p) ==
    /\ inv[p].userCalls <= 1
    /\ inv[p].repoCalls <= 1
    /\ inv[p].getCalls <= 1
    /\ Len(inv[p].updateArgs) <= 1
    /\ \A j, k \in 1..Len(inv[p].queried) : inv[p].queried[j] = inv[p].queried[k] => j = k
C16_NoRetries ==
    /\ [](\A p \in Handlers : OnceEach(p))
    /\ [][\A p \in Handlers : Failed(p) => Calls(p)' = Calls(p)]_vars

\* a get has failed after the five earlier stages issued their calls
C16_Witness ==
    \E p \in Handlers :
        /\ inv[p].getResp = "reject"
        /\ inv[p].pc = "done"
        /\ Len(inv[p].queried) >= 2

\* C17: a Stage 2 response without authentication rejection that yields no
\* non-fork repository (an empty listing, forks only, or no listing at all)
\* leads to no commit-history query and, when handler returns, to 200 'No
\* commit data found'.
C17_EmptyRepoListLegal ==
    \A p \in Handlers :
        (/\ inv[p].pc = "done"
         /\ inv[p].repoResp.kind \in {"listing", "nolisting"}
         /\ \A i \in 1..Len(inv[p].repoResp.nodes) : inv[p].repoResp.nodes[i])
        => /\ inv[p].queried = <<>>
           /\ inv[p].sent = <<NoCommitData>>

\* C18: an exception no stage converts into an outcome is caught once and
\* gives 500 'Internal Server Error', the only response of that run.
Thrown(p) ==
    \/ inv[p].repoResp.kind = "nolisting"
    \/ Stage3Succeeded(p) /\ \E i \in Resolved(p) : inv[p].fetch[i].resp.kind = "noedges"
    \/ inv[p].updateResp = "reject"
C18_CaughtOnce ==
    \A p \in Handlers :
        /\ Thrown(p) => inv[p].sent = <<InternalError>> /\ inv[p].pc = "done"
        /\ Sent(p, InternalError) => Thrown(p) /\ inv[p].sent = <<InternalError>>

\* a rejected update has been answered by the generic response
C18_Witness ==
    \E p \in Handlers : inv[p].updateResp = "reject" /\ inv[p].sent = <<InternalError>>

\* C19: when every Stage 3 fetch succeeds, a response lacking data,
\* repository, defaultBranchRef, target, history or the history's edges
\* contributes no timestamp and the aggregation completes on the others.
C19_MissingTolerated ==
    \A p \in Handlers :
        Stage3Succeeded(p) =>
            /\ inv[p].aggregated
            /\ Sum(inv[p]) = Cardinality(Positions(p))
            /\ ~Sent(p, InternalError) \/ inv[p].updateResp = "reject"

\* C20 as claimed: the key an invocation passes to update is still the name
\* of the first blob of the document while its update is under way, also when
\* a second invocation gets and updates the same document in between.
C20_KeyStillFirst ==
    \A p \in Handlers :
        inv[p].pc = "awaitUpdate" =>
            /\ Len(gistDoc.files) >= 1
            /\ inv[p].filename = gistDoc.files[1].name

\* C20 as amended: the key is the name of the first blob of the mapping the
\* get returned, and it is still the first blob's name while the update is
\* under way as long as the document has not changed since that get (no other
\* invocation's update has been applied in between).
C20_KeyFirstUnlessRaced ==
    \A p \in Handlers :
        (inv[p].pc = "awaitUpdate" /\ Len(inv[p].gist.files) >= 1) =>
            /\ inv[p].filename = inv[p].gist.files[1].name
            /\ (\/ gistDoc.files = inv[p].gist.files
                \/ \A q \in Handlers \ {p} : inv[q].updateResp # "ok")
                  => /\ Len(gistDoc.files) >= 1
                     /\ inv[p].filename = gistDoc.files[1].name

\* an invocation is about to update the document that another invocation's
\* update had renamed before its get
C20_Witness ==
    \E p \in Handlers : \E q \in Handlers \ {p} :
        /\ inv[p].pc = "awaitUpdate"
        /\ inv[q].updateResp = "ok"
        /\ gistDoc.files = inv[p].gist.files
        /\ inv[p].filename \in {EarlyLabel, NightLabel}

====
